---- MODULE Spec2Model ----
(***************************************************************************)
(* Quiz Master (src/app.py): the text-to-question parser parse_questions   *)
(* and the quiz session kept in st.session_state, driven by the Start      *)
(* Quiz, Submit Answer and Restart Quiz handlers of the Streamlit script.  *)
(*                                                                         *)
(* A Python str is a sequence of one-character strings, so that strip,     *)
(* split, replace and startswith are computed character by character.      *)
(***************************************************************************)
EXTENDS Integers, Sequences, FiniteSets, TLC

(***************************************************************************)
(* Bounds of the model.                                                    *)
(***************************************************************************)
\* most candidate blocks in a text given to the parser
MaxBlocks == 2
\* most blank lines between two consecutive blocks
MaxGap == 4
\* largest value of the num_questions widget tried by the parser runs
MaxAsk == 2
\* longest quiz played by the session runs
MaxQuiz == 4
\* last reading of the clock
MaxTime == 6

\* value of st.session_state.get("num_questions", 3) when the key is absent
DefaultNumQuestions == 3

\* an absent key of st.session_state is the empty sequence, a present one <<value>>
None == <<>>
Some(v) == <<v>>

(***************************************************************************)
(* Python str operations, on sequences of characters.                      *)
(***************************************************************************)
NL == "\n"
CR == "\r"
Whitespace == {" ", "\t", NL, CR}

StartsWith(s, p) == Len(s) >= Len(p) /\ SubSeq(s, 1, Len(p)) = p

\* sub occurs in s at index i
OccursAt(s, sub, i) == \A k \in 1..Len(sub) : s[i + k - 1] = sub[k]

\* str.find, 1-based; 0 when sub does not occur
Find(s, sub) ==
  LET last == Len(s) - Len(sub) + 1
  IN IF \E i \in 1..last : OccursAt(s, sub, i)
     THEN CHOOSE i \in 1..last :
            OccursAt(s, sub, i) /\ \A j \in 1..(i - 1) : ~OccursAt(s, sub, j)
     ELSE 0

Contains(s, sub) == Find(s, sub) # 0

RECURSIVE LStrip(_)
LStrip(s) == IF s # <<>> /\ Head(s) \in Whitespace THEN LStrip(Tail(s)) ELSE s

RECURSIVE RStrip(_)
RStrip(s) ==
  IF s # <<>> /\ s[Len(s)] \in Whitespace THEN RStrip(SubSeq(s, 1, Len(s) - 1)) ELSE s

\* str.strip()
Strip(s) == RStrip(LStrip(s))

\* str.split(sep): every occurrence of sep, left to right, empty pieces kept
RECURSIVE Split(_, _)
Split(s, sep) ==
  LET i == Find(s, sep)
  IN IF i = 0 THEN <<s>>
     ELSE <<SubSeq(s, 1, i - 1)>> \o Split(SubSeq(s, i + Len(sep), Len(s)), sep)

\* str.split(sep, 1)[1]: what follows the first occurrence of sep
AfterFirst(s, sep) == SubSeq(s, Find(s, sep) + Len(sep), Len(s))

\* sep.join(parts)
RECURSIVE Join(_, _)
Join(parts, sep) ==
  IF parts = <<>> THEN <<>>
  ELSE IF Len(parts) = 1 THEN parts[1]
  ELSE parts[1] \o sep \o Join(Tail(parts), sep)

\* str.replace(old, new): non-overlapping occurrences, left to right, one pass
RECURSIVE Replace(_, _, _)
Replace(s, old, new) ==
  LET i == Find(s, old)
  IN IF i = 0 THEN s
     ELSE SubSeq(s, 1, i - 1) \o new \o Replace(SubSeq(s, i + Len(old), Len(s)), old, new)

\* [f(x) for x in seq]
RECURSIVE MapStrip(_)
MapStrip(lines) ==
  IF lines = <<>> THEN <<>> ELSE <<Strip(Head(lines))>> \o MapStrip(Tail(lines))

\* next((x for x in seq if P(x)), "")
FirstStartingWith(lines, p) ==
  LET idxs == {i \in 1..Len(lines) : StartsWith(Strip(lines[i]), p)}
  IN IF idxs = {} THEN <<>>
     ELSE lines[CHOOSE i \in idxs : \A j \in idxs : i <= j]

\* d[k] = v on a dict
DictSet(d, k, v) == [x \in (DOMAIN d) \cup {k} |-> IF x = k THEN v ELSE d[x]]

EmptyDict == <<>>

(***************************************************************************)
(* parse_questions                                                         *)
(***************************************************************************)
OptionLetters == <<"A", "B", "C", "D">>
AnswerMarker == <<"A", "n", "s", "w", "e", "r", ":">>
ExplanationMarker == <<"E", "x", "p", "l", "a", "n", "a", "t", "i", "o", "n", ":">>
ValidAnswers == {<<"A">>, <<"B">>, <<"C">>, <<"D">>}

\* text.replace('\r\n', '\n')
NormalizeLineEndings(text) == Replace(text, <<CR, NL>>, <<NL>>)

\* '\n'.join(line.strip() for line in text.split('\n'))
StripLines(text) == Join(MapStrip(Split(text, <<NL>>)), <<NL>>)

\* text.replace('\n\n\n', '\n\n')
CollapseBlankLines(text) == Replace(text, <<NL, NL, NL>>, <<NL, NL>>)

Cleanup(text) == CollapseBlankLines(StripLines(NormalizeLineEndings(text)))

\* blocks = text.strip().split("\n\n")
SplitBlocks(text) == Split(Strip(text), <<NL, NL>>)

\* variant: block.startswith("Q"), without the strip
IsQuestionBlock_NoStrip(block) == StartsWith(block, <<"Q">>)

\* block.strip().startswith("Q")
IsQuestionBlock(block) == StartsWith(Strip(block), <<"Q">>)

\* lines[0].split(":", 1)[1].strip() if ":" in lines[0] else lines[0].strip()
QuestionText(lines) ==
  IF Contains(lines[1], <<":">>) THEN Strip(AfterFirst(lines[1], <<":">>))
  ELSE Strip(lines[1])

\* any(line.strip().startswith(f"{opt}.") for opt in ["A", "B", "C", "D"])
IsOptionLine(line) ==
  \E i \in 1..Len(OptionLetters) : StartsWith(Strip(line), <<OptionLetters[i], ".">>)

OptionLines(lines) == SelectSeq(lines, IsOptionLine)

\* for line in option_lines: options[line[0]] = line[2:].strip()
RECURSIVE BuildOptions(_, _)
BuildOptions(option_lines, options) ==
  IF option_lines = <<>> THEN options
  ELSE LET line == Head(option_lines)
       IN BuildOptions(Tail(option_lines),
                       DictSet(options, SubSeq(line, 1, 1), Strip(SubSeq(line, 3, Len(line)))))

Skip == [ok |-> FALSE]

\* the body of the loop over the blocks: the question appended, or Skip
ParseBlock(block) ==
  IF ~IsQuestionBlock(block) THEN Skip
  ELSE
    LET lines == Split(block, <<NL>>)
        question == QuestionText(lines)
        option_lines == OptionLines(lines)
        answer_line == FirstStartingWith(lines, AnswerMarker)
        explanation_line == FirstStartingWith(lines, ExplanationMarker)
        answer == Strip(Replace(answer_line, AnswerMarker, <<>>))
        explanation == Strip(Replace(explanation_line, ExplanationMarker, <<>>))
    IN IF Len(option_lines) # 4 THEN Skip
       ELSE IF answer_line = <<>> \/ explanation_line = <<>> THEN Skip
       ELSE IF answer \notin ValidAnswers THEN Skip
       ELSE [ok |-> TRUE,
             q |-> [question |-> question,
                    options |-> BuildOptions(option_lines, EmptyDict),
                    answer |-> answer,
                    explanation |-> explanation]]

\* for idx, block in enumerate(blocks, 1): what the body does with each block
RECURSIVE BlockOutcomes(_)
BlockOutcomes(blocks) ==
  IF blocks = <<>> THEN <<>>
  ELSE <<ParseBlock(Head(blocks))>> \o BlockOutcomes(Tail(blocks))

\* questions.append(...) for the blocks that were not skipped
RECURSIVE AppendAccepted(_, _)
AppendAccepted(outs, questions) ==
  IF outs = <<>> THEN questions
  ELSE AppendAccepted(Tail(outs),
                      IF Head(outs).ok THEN Append(questions, Head(outs).q) ELSE questions)

\* questions = []; the loop over the blocks
ParseBlocks(blocks, questions) == AppendAccepted(BlockOutcomes(blocks), questions)

\* the list `questions` when the loop is over
AcceptedQuestions(text) == ParseBlocks(SplitBlocks(Cleanup(text)), <<>>)

\* variant: <= in place of <, a yield equal to the request fails
ResultPolicy_NoBoundary(questions, num_questions) ==
  IF Len(questions) <= num_questions THEN <<>>
  ELSE SubSeq(questions, 1, num_questions)

\* variant: a shortfall returns what was recovered
ResultPolicy_Partial(questions, num_questions) ==
  IF Len(questions) < num_questions THEN questions
  ELSE SubSeq(questions, 1, num_questions)

\* if len(questions) < num_questions: return []; return questions[:num_questions]
ResultPolicy(questions, num_questions) ==
  IF Len(questions) < num_questions THEN <<>>
  ELSE SubSeq(questions, 1, num_questions)

parse_questions(text, num_questions) ==
  ResultPolicy(AcceptedQuestions(text), num_questions)

(***************************************************************************)
(* Raw texts returned by generate_mcqs: candidate blocks, each a list of   *)
(* lines, separated by runs of blank lines.                                *)
(***************************************************************************)
QLine(num, prompt) == <<"Q", num, ":", " ", prompt>>
OptLine(letter, body) == <<letter, ".", " ", body>>
AnsLine(letter) == AnswerMarker \o <<" ", letter>>
ExplLine == ExplanationMarker \o <<" ", "e">>
FourOptions == <<OptLine("A", "w"), OptLine("B", "x"), OptLine("C", "y"), OptLine("D", "z")>>

BlockKinds ==
  {"good", "good2", "padded", "dupOption", "threeOptions", "noAnswer", "badAnswer",
   "noExplanation", "emptyExplanation", "emptyPrompt", "noColon", "preamble"}

WellFormedKinds == {"good", "good2", "padded"}

BlockLines(kind) ==
  CASE kind = "good" ->
         <<QLine("1", "p")>> \o FourOptions \o <<AnsLine("B"), ExplLine>>
    [] kind = "good2" ->
         <<QLine("2", "r")>> \o FourOptions \o <<AnsLine("D"), ExplLine>>
    [] kind = "padded" ->
         << <<" ">> \o QLine("3", "s") \o <<CR>>,
            <<"\t">> \o OptLine("A", "w") \o <<" ", CR>>,
            OptLine("B", "x") \o <<CR>>,
            OptLine("C", "y") \o <<CR>>,
            OptLine("D", "z") \o <<CR>>,
            AnsLine("A") \o <<" ", CR>>,
            ExplLine \o <<CR>> >>
    [] kind = "dupOption" ->
         <<QLine("4", "t"), OptLine("A", "w"), OptLine("A", "x"), OptLine("B", "y"),
           OptLine("C", "z"), AnsLine("D"), ExplLine>>
    [] kind = "threeOptions" ->
         <<QLine("5", "u"), OptLine("A", "w"), OptLine("B", "x"), OptLine("C", "y"),
           AnsLine("A"), ExplLine>>
    [] kind = "noAnswer" ->
         <<QLine("6", "v")>> \o FourOptions \o <<ExplLine>>
    [] kind = "badAnswer" ->
         <<QLine("7", "v")>> \o FourOptions \o <<AnsLine("E"), ExplLine>>
    [] kind = "noExplanation" ->
         <<QLine("8", "v")>> \o FourOptions \o <<AnsLine("C")>>
    [] kind = "emptyExplanation" ->
         <<QLine("9", "k")>> \o FourOptions \o <<AnsLine("C"), ExplanationMarker>>
    [] kind = "emptyPrompt" ->
         << <<"Q", "1", ":">> >> \o FourOptions \o <<AnsLine("C"), ExplLine>>
    [] kind = "noColon" ->
         << <<"Q", "3">> >> \o FourOptions \o <<AnsLine("C"), ExplLine>>
    [] kind = "preamble" ->
         << <<"H", "i">> >>

BlockText(kind) == Join(BlockLines(kind), <<NL>>)

\* n blank lines between two blocks are n + 1 newline characters
Separator(n) == [i \in 1..(n + 1) |-> NL]

\* the blocks of the given kinds, n blank lines between consecutive ones
MkText(kinds, n) == Join([i \in 1..Len(kinds) |-> BlockText(kinds[i])], Separator(n))

KindSeqs == UNION {[1..len -> BlockKinds] : len \in 1..MaxBlocks}

(***************************************************************************)
(* State.                                                                  *)
(***************************************************************************)
VARIABLES
  \* one call of parse_questions
  src_kinds,      \* the kinds of the blocks of the raw text
  gap,            \* the blank lines between its blocks
  text,           \* argument text
  ask,            \* argument num_questions
  pc,             \* "call" before the call, "return" after it
  outcomes,       \* what the loop did with each block: appended a question, or skipped
  accepted,       \* the list `questions` when the loop over the blocks is over
  parsed,         \* the value returned
  \* st.session_state
  questions, current_q, score, quiz_started, quiz_complete, user_answers,
  start_time, time_taken,
  num_questions,  \* the widget key "num_questions", None when absent
  \* the script
  rerun,          \* st.rerun() was called: the next run starts at once
  submit_shown,   \* the last run rendered the Submit Answer button of line 193
  now             \* time.time(), in ticks of 0.1 s

parserVars == <<src_kinds, gap, text, ask, pc, outcomes, accepted, parsed>>
sessionVars == <<questions, current_q, score, quiz_started, quiz_complete, user_answers,
                 start_time, time_taken, num_questions, rerun, submit_shown, now>>
vars == <<src_kinds, gap, text, ask, pc, outcomes, accepted, parsed,
          questions, current_q, score, quiz_started, quiz_complete, user_answers,
          start_time, time_taken, num_questions, rerun, submit_shown, now>>

\* lines 28-30, and the first render of the number_input of line 150
InitSession ==
  /\ questions = <<>>
  /\ current_q = 0
  /\ score = 0
  /\ quiz_started = FALSE
  /\ quiz_complete = FALSE
  /\ user_answers = EmptyDict
  /\ start_time = None
  /\ time_taken = None
  /\ num_questions = Some(DefaultNumQuestions)
  /\ rerun = FALSE
  /\ submit_shown = FALSE
  /\ now = 0

NoParse ==
  /\ src_kinds = <<>>
  /\ gap = 1
  /\ text = <<>>
  /\ ask = 1
  /\ pc = "idle"
  /\ outcomes = <<>>
  /\ accepted = <<>>
  /\ parsed = <<>>

(***************************************************************************)
(* The parser alone: one call of parse_questions on each raw text.         *)
(***************************************************************************)
InitParse ==
  /\ src_kinds \in KindSeqs
  /\ gap \in 1..MaxGap
  /\ (Len(src_kinds) = 1 => gap = 1)
  /\ text = MkText(src_kinds, gap)
  /\ ask \in 1..MaxAsk
  /\ pc = "call"
  /\ outcomes = <<>>
  /\ accepted = <<>>
  /\ parsed = <<>>
  /\ InitSession

ParseQuestions ==
  /\ pc = "call"
  /\ outcomes' = BlockOutcomes(SplitBlocks(Cleanup(text)))
  /\ accepted' = AppendAccepted(outcomes', <<>>)
  /\ parsed' = ResultPolicy(accepted', ask)
  /\ pc' = "return"
  /\ UNCHANGED <<src_kinds, gap, text, ask>>
  /\ UNCHANGED sessionVars

NextParse == ParseQuestions

SpecParse == InitParse /\ [][NextParse]_vars

(***************************************************************************)
(* The session: the script of src/app.py run once per user event, and      *)
(* once more at once after each st.rerun().                                *)
(***************************************************************************)
\* raw texts generate_mcqs returns to the Start Quiz handler: len good blocks
QuizKinds(len) == [i \in 1..len |-> IF i % 2 = 1 THEN "good" ELSE "good2"]
QuizTexts == {MkText(QuizKinds(len), 1) : len \in 1..MaxQuiz}

Init == NoParse /\ InitSession

\* NUM_QUESTIONS = st.session_state.get("num_questions", 3)
NUM_QUESTIONS == IF num_questions = None THEN DefaultNumQuestions ELSE num_questions[1]

\* variant: quiz_started is set before the parse, whatever the parse yields
StartQuiz_StartedFirst(raw, n) ==
  /\ ~quiz_started
  /\ ~rerun
  /\ now < MaxTime
  /\ num_questions' = Some(n)
  /\ submit_shown' = FALSE
  /\ quiz_started' = TRUE
  /\ LET qs == parse_questions(raw, n)
     IN IF qs = <<>>
        THEN UNCHANGED <<questions, current_q, score, quiz_complete,
                         user_answers, start_time, time_taken, rerun, now>>
        ELSE /\ questions' = qs
             /\ current_q' = 0
             /\ score' = 0
             /\ user_answers' = EmptyDict
             /\ quiz_complete' = FALSE
             /\ start_time' = Some(now)
             /\ now' = now + 1
             /\ rerun' = TRUE
             /\ UNCHANGED time_taken
  /\ UNCHANGED parserVars

\* Start Quiz clicked with a topic; raw is what generate_mcqs returned
StartQuiz(raw, n) ==
  /\ ~quiz_started
  /\ ~rerun
  /\ now < MaxTime
  /\ num_questions' = Some(n)
  /\ submit_shown' = FALSE
  /\ LET qs == parse_questions(raw, n)
     IN IF qs = <<>>
        THEN UNCHANGED <<questions, current_q, score, quiz_started, quiz_complete,
                         user_answers, start_time, time_taken, rerun, now>>
        ELSE /\ questions' = qs
             /\ quiz_started' = TRUE
             /\ current_q' = 0
             /\ score' = 0
             /\ user_answers' = EmptyDict
             /\ quiz_complete' = FALSE
             /\ start_time' = Some(now)
             /\ now' = now + 1
             /\ rerun' = TRUE
             /\ UNCHANGED time_taken
  /\ UNCHANGED parserVars

\* the key of the number_input leaves st.session_state at the end of a run that
\* ran to its end without rendering the widget: the widget is rendered only
\* while the quiz is not started, and line 174 reads the key with a default
WidgetCleanup ==
  /\ quiz_started
  /\ ~rerun
  /\ num_questions # None
  /\ num_questions' = None
  /\ UNCHANGED <<questions, current_q, score, quiz_started, quiz_complete, user_answers,
                 start_time, time_taken, rerun, submit_shown, now>>
  /\ UNCHANGED parserVars

\* variant: no defensive check, questions[current_q] is indexed and the run
\* ends on the IndexError
ScriptRerun_NoDefensive ==
  /\ rerun
  /\ IF ~quiz_started
     THEN num_questions' = Some(NUM_QUESTIONS)
     ELSE UNCHANGED num_questions
  /\ rerun' = FALSE
  /\ submit_shown' = (quiz_started /\ ~quiz_complete /\ current_q < Len(questions))
  /\ UNCHANGED <<questions, current_q, score, quiz_started, quiz_complete, user_answers,
                 start_time, time_taken, now>>
  /\ UNCHANGED parserVars

\* the run started by st.rerun(): no button is clicked in it
ScriptRerun ==
  /\ rerun
  /\ IF ~quiz_started
     THEN /\ num_questions' = Some(NUM_QUESTIONS)
          /\ rerun' = FALSE
          /\ UNCHANGED quiz_complete
     ELSE IF ~quiz_complete /\ current_q >= Len(questions)
     THEN /\ quiz_complete' = TRUE
          /\ rerun' = TRUE
          /\ UNCHANGED num_questions
     ELSE /\ rerun' = FALSE
          /\ UNCHANGED <<quiz_complete, num_questions>>
  /\ submit_shown' = (quiz_started /\ ~quiz_complete /\ current_q < Len(questions))
  /\ UNCHANGED <<questions, current_q, score, quiz_started, user_answers,
                 start_time, time_taken, now>>
  /\ UNCHANGED parserVars

\* variant: the answer is stored under the index after current_q
SubmitAnswer_KeyNext(selected) ==
  /\ quiz_started /\ ~quiz_complete
  /\ ~rerun
  /\ current_q < Len(questions)
  /\ selected \in DOMAIN questions[current_q + 1].options
  /\ LET q == questions[current_q + 1]
     IN /\ user_answers' = DictSet(user_answers, current_q + 1, selected)
        /\ score' = IF selected = q.answer THEN score + 1 ELSE score
        /\ IF current_q < NUM_QUESTIONS - 1
           THEN /\ now < MaxTime
                /\ current_q' = current_q + 1
                /\ now' = now + 1
                /\ rerun' = TRUE
                /\ submit_shown' = FALSE
                /\ UNCHANGED <<quiz_complete, time_taken>>
           ELSE /\ quiz_complete' = TRUE
                /\ time_taken' = IF start_time # None THEN Some(now - start_time[1]) ELSE time_taken
                /\ UNCHANGED <<current_q, now, rerun, submit_shown>>
  /\ UNCHANGED <<questions, quiz_started, start_time, num_questions>>
  /\ UNCHANGED parserVars

\* variant: the score is incremented whatever was selected
SubmitAnswer_AlwaysScore(selected) ==
  /\ quiz_started /\ ~quiz_complete
  /\ ~rerun
  /\ current_q < Len(questions)
  /\ selected \in DOMAIN questions[current_q + 1].options
  /\ LET q == questions[current_q + 1]
     IN /\ user_answers' = DictSet(user_answers, current_q, selected)
        /\ score' = score + 1
        /\ IF current_q < NUM_QUESTIONS - 1
           THEN /\ now < MaxTime
                /\ current_q' = current_q + 1
                /\ now' = now + 1
                /\ rerun' = TRUE
                /\ submit_shown' = FALSE
                /\ UNCHANGED <<quiz_complete, time_taken>>
           ELSE /\ quiz_complete' = TRUE
                /\ time_taken' = IF start_time # None THEN Some(now - start_time[1]) ELSE time_taken
                /\ UNCHANGED <<current_q, now, rerun, submit_shown>>
  /\ UNCHANGED <<questions, quiz_started, start_time, num_questions>>
  /\ UNCHANGED parserVars

\* Submit Answer clicked with the radio on `selected`
SubmitAnswer(selected) ==
  /\ quiz_started /\ ~quiz_complete
  /\ ~rerun
  /\ current_q < Len(questions)
  /\ selected \in DOMAIN questions[current_q + 1].options
  /\ LET q == questions[current_q + 1]
     IN /\ user_answers' = DictSet(user_answers, current_q, selected)
        /\ score' = IF selected = q.answer THEN score + 1 ELSE score
        /\ IF current_q < NUM_QUESTIONS - 1
           THEN /\ now < MaxTime
                /\ current_q' = current_q + 1
                /\ now' = now + 1
                /\ rerun' = TRUE
                /\ submit_shown' = FALSE
                /\ UNCHANGED <<quiz_complete, time_taken>>
           ELSE /\ quiz_complete' = TRUE
                /\ time_taken' = IF start_time # None THEN Some(now - start_time[1]) ELSE time_taken
                /\ UNCHANGED <<current_q, now, rerun, submit_shown>>
  /\ UNCHANGED <<questions, quiz_started, start_time, num_questions>>
  /\ UNCHANGED parserVars

\* variant: the handler records and scores the answer although the session
\* is already complete
SubmitClick_Unguarded(selected) ==
  /\ submit_shown
  /\ ~rerun
  /\ IF quiz_started /\ ~quiz_complete
     THEN SubmitAnswer(selected)
     ELSE /\ current_q < Len(questions)
          /\ selected \in DOMAIN questions[current_q + 1].options
          /\ user_answers' = DictSet(user_answers, current_q, selected)
          /\ score' = IF selected = questions[current_q + 1].answer THEN score + 1 ELSE score
          /\ submit_shown' = FALSE
          /\ UNCHANGED <<questions, current_q, quiz_started, quiz_complete,
                         start_time, time_taken, num_questions, rerun, now>>
          /\ UNCHANGED parserVars

\* the Submit Answer button on display is clicked, the radio on `selected`: the
\* handler runs if line 177 lets the run reach the button; if not, the run
\* only renders the results
SubmitClick(selected) ==
  /\ submit_shown
  /\ ~rerun
  /\ IF quiz_started /\ ~quiz_complete
     THEN SubmitAnswer(selected)
     ELSE /\ submit_shown' = FALSE
          /\ UNCHANGED <<questions, current_q, score, quiz_started, quiz_complete,
                         user_answers, start_time, time_taken, num_questions, rerun, now>>
          /\ UNCHANGED parserVars

\* variant: current_q left out of the keys that are reset
RestartQuiz_KeepIndex ==
  /\ quiz_complete
  /\ ~rerun
  /\ now < MaxTime
  /\ questions' = <<>>
  /\ score' = 0
  /\ quiz_started' = FALSE
  /\ quiz_complete' = FALSE
  /\ user_answers' = EmptyDict
  /\ now' = now + 1
  /\ rerun' = TRUE
  /\ submit_shown' = FALSE
  /\ UNCHANGED <<current_q, start_time, time_taken, num_questions>>
  /\ UNCHANGED parserVars

\* variant: score left out of the keys that are reset
RestartQuiz_KeepScore ==
  /\ quiz_complete
  /\ ~rerun
  /\ now < MaxTime
  /\ questions' = <<>>
  /\ current_q' = 0
  /\ quiz_started' = FALSE
  /\ quiz_complete' = FALSE
  /\ user_answers' = EmptyDict
  /\ now' = now + 1
  /\ rerun' = TRUE
  /\ submit_shown' = FALSE
  /\ UNCHANGED <<score, start_time, time_taken, num_questions>>
  /\ UNCHANGED parserVars

\* variant: user_answers left out of the keys that are reset
RestartQuiz_KeepAnswers ==
  /\ quiz_complete
  /\ ~rerun
  /\ now < MaxTime
  /\ questions' = <<>>
  /\ current_q' = 0
  /\ score' = 0
  /\ quiz_started' = FALSE
  /\ quiz_complete' = FALSE
  /\ now' = now + 1
  /\ rerun' = TRUE
  /\ submit_shown' = FALSE
  /\ UNCHANGED <<user_answers, start_time, time_taken, num_questions>>
  /\ UNCHANGED parserVars

\* Restart Quiz clicked: the button is part of the results interface
RestartQuiz ==
  /\ quiz_complete
  /\ ~rerun
  /\ now < MaxTime
  /\ questions' = <<>>
  /\ current_q' = 0
  /\ score' = 0
  /\ quiz_started' = FALSE
  /\ quiz_complete' = FALSE
  /\ user_answers' = EmptyDict
  /\ now' = now + 1
  /\ rerun' = TRUE
  /\ submit_shown' = FALSE
  /\ UNCHANGED <<start_time, time_taken, num_questions>>
  /\ UNCHANGED parserVars

\* total_questions = len(st.session_state.questions)
total_questions == Len(questions)

\* score_percentage = (score / total_questions) * 100, its integer part
score_percentage == (score * 100) \div total_questions

Next ==
  \/ \E raw \in QuizTexts, n \in 1..MaxQuiz : StartQuiz(raw, n)
  \/ WidgetCleanup
  \/ ScriptRerun
  \/ \E selected \in ValidAnswers : SubmitClick(selected)
  \/ RestartQuiz

Spec == Init /\ [][Next]_vars

(***************************************************************************)
(* Properties of parse_questions, checked under SpecParse.                 *)
(***************************************************************************)
\* the questions of the blocks that passed the per-block checks, in block order
PassingInBlockOrder ==
  LET passing == SelectSeq(outcomes, LAMBDA r : r.ok)
  IN [i \in 1..Len(passing) |-> passing[i].q]

Returned == pc = "return"

\* C1: when at least num_questions blocks pass the per-block checks (the
\* boundary of exactly num_questions included), parse_questions returns
\* exactly the first num_questions accepted questions, in block order.
C1_TruncateOnSurplus ==
  Returned =>
    LET acc == PassingInBlockOrder
    IN Len(acc) >= ask => (Len(parsed) = ask /\ parsed = SubSeq(acc, 1, ask))

\* two different questions accepted, one asked for: the second is dropped
C1_Witness ==
  /\ Returned
  /\ ask = 1
  /\ Len(accepted) = 2
  /\ accepted[1] # accepted[2]
  /\ parsed = <<accepted[1]>>

\* C2: when fewer than num_questions blocks pass the per-block checks,
\* parse_questions returns the empty list, never a partial list.
C2_FailOnShortfall ==
  Returned => (Len(PassingInBlockOrder) < ask => parsed = <<>>)

\* one question accepted, two asked for: nothing is returned
C2_Witness ==
  /\ Returned
  /\ ask = 2
  /\ Len(accepted) = 1
  /\ parsed = <<>>

\* C3: every returned question has exactly the four option keys A, B, C, D.
C3_FourDistinctOptions ==
  Returned => \A i \in 1..Len(parsed) : DOMAIN parsed[i].options = ValidAnswers

\* C4: the answer of every returned question is one of A, B, C, D and is a
\* key of that question's options.
C4_AnswerAmongOptions ==
  Returned =>
    \A i \in 1..Len(parsed) :
      /\ parsed[i].answer \in ValidAnswers
      /\ parsed[i].answer \in DOMAIN parsed[i].options

\* C5: every returned question has a non-empty explanation.
C5_ExplanationNonEmpty ==
  Returned => \A i \in 1..Len(parsed) : parsed[i].explanation # <<>>

\* C6: every returned question has a non-empty prompt text.
C6_PromptNonEmpty ==
  Returned => \A i \in 1..Len(parsed) : parsed[i].question # <<>>

AllWellFormed == \A i \in 1..Len(src_kinds) : src_kinds[i] \in WellFormedKinds

\* C7: for well-formed blocks, with any number of blank lines between them
\* the parser recovers as many questions as with exactly one blank line.
C7_ExtraBlankLinesLoseNoBlock ==
  (Returned /\ AllWellFormed) =>
    LET tight == AcceptedQuestions(MkText(src_kinds, 1))
    IN /\ Len(accepted) = Len(tight)
       /\ Len(parsed) = Len(ResultPolicy(tight, ask))

\* two well-formed blocks three or more blank lines apart, both recovered
C7_Witness ==
  /\ Returned
  /\ AllWellFormed
  /\ gap >= 3
  /\ Len(src_kinds) = 2
  /\ Len(accepted) = 2

(***************************************************************************)
(* Properties of the session, checked under Spec.                          *)
(***************************************************************************)
\* every recorded answer is the correct key of its question
AllAnswersCorrect ==
  \A i \in DOMAIN user_answers : user_answers[i] = questions[i + 1].answer

\* C8: a quiz of L questions answered with the correct key each time ends
\* Complete with score L and percentage 100, all L questions answered.
C8_AllCorrectScoresFull ==
  (quiz_complete /\ AllAnswersCorrect) =>
    /\ score = Len(questions)
    /\ score_percentage = 100
    /\ DOMAIN user_answers = 0..(Len(questions) - 1)

\* C9: a submitted answer completes the session exactly when it is the answer
\* to the last question; at an earlier index the session stays Active with
\* current_q one larger.
C9_CompleteExactlyAtLastIndex ==
  [][(\E selected \in ValidAnswers : SubmitAnswer(selected)) =>
       IF current_q = Len(questions) - 1
       THEN quiz_complete'
       ELSE ~quiz_complete' /\ current_q' = current_q + 1]_vars

\* Idle with every field of the session cleared
IdleEmpty ==
  /\ questions = <<>>
  /\ user_answers = EmptyDict
  /\ score = 0
  /\ current_q = 0
  /\ ~quiz_started
  /\ ~quiz_complete

\* C10, as claimed: in every state in which the script waits for the user
\* (Idle, Active, Complete), Restart can be taken and leads to Idle with
\* every field cleared.
C10_RestartFromAnyState ==
  (~rerun /\ now < MaxTime) => ENABLED (RestartQuiz /\ IdleEmpty')

\* C10, amended: Restart is taken from the Complete state only, and leads to
\* Idle with an empty question list, empty user_answers, score 0, current_q
\* 0, quiz_started false and quiz_complete false.
C10_RestartFromComplete ==
  [][RestartQuiz => (quiz_complete /\ IdleEmpty')]_vars

\* Idle again after a quiz was played: start_time is only ever set by Start
C10_Witness ==
  /\ IdleEmpty
  /\ start_time # None
  /\ time_taken # None

\* C11: time_taken is absent while the session is Idle or Active, is set in
\* the step that makes the session Complete to the completion time minus the
\* start time of that session, and does not change while the session stays
\* Complete.
C11_ElapsedSetOnceAtCompletion ==
  [][/\ (~quiz_complete' => time_taken' = None)
     /\ ((~quiz_complete /\ quiz_complete') =>
           (start_time # None /\ time_taken' = Some(now - start_time[1])))
     /\ ((quiz_complete /\ quiz_complete') => time_taken' = time_taken)]_vars

\* a Start Quiz click whose parse yields no question
FailedStart == \E raw \in QuizTexts, n \in 1..MaxQuiz :
                 StartQuiz(raw, n) /\ parse_questions(raw, n) = <<>>

\* C12: a Start Quiz attempt whose parse yields no questions leaves
\* quiz_started false and questions, current_q, score, user_answers and
\* quiz_complete as they were.
C12_FailedStartChangesNothing ==
  [][FailedStart =>
       (~quiz_started' /\ UNCHANGED <<questions, current_q, score, user_answers,
                                      quiz_complete>>)]_vars

\* Idle after a quiz was played and restarted, the widget on a count that no
\* text of the model can yield: the last Start Quiz click failed
C12_Witness ==
  /\ ~quiz_started
  /\ ~rerun
  /\ start_time # None
  /\ num_questions # None
  /\ num_questions[1] = MaxQuiz
  /\ questions = <<>>

\* C13: 0 <= current_q <= len(questions) in every reachable state.
C13_IndexWithinQuestions == 0 <= current_q /\ current_q <= Len(questions)

\* the index has run past the last question of a started quiz
C13_Witness ==
  /\ quiz_started
  /\ Len(questions) > 0
  /\ current_q = Len(questions)

\* C14, as claimed: 0 <= score <= current_q in every reachable state.
C14_ScoreAtMostIndex == 0 <= score /\ score <= current_q

\* C14, amended: 0 <= score <= the number of recorded answers <=
\* len(questions) in every reachable state; score <= current_q while the
\* session is not Complete, and score <= current_q + 1 once it is.
C14_ScoreAtMostAnswered ==
  /\ 0 <= score
  /\ score <= Cardinality(DOMAIN user_answers)
  /\ Cardinality(DOMAIN user_answers) <= Len(questions)
  /\ (~quiz_complete => score <= current_q)
  /\ score <= current_q + 1

\* Complete on the last index with every answer right: score is current_q + 1
C14_Witness ==
  /\ quiz_complete
  /\ score = current_q + 1
  /\ score = Len(questions)

\* the kinds of block the parser is meant to discard
MalformedKinds == {"threeOptions", "noAnswer", "badAnswer", "noExplanation", "preamble"}

\* the blocks of the text that are not malformed, in order
ValidBlocksOnly == SelectSeq(src_kinds, LAMBDA k : k \notin MalformedKinds)

\* C15: the questions recovered from a text are the questions recovered from
\* its valid blocks alone, in the same order, wherever malformed blocks stand
\* among them.
C15_MalformedBlocksDiscardedLocally ==
  Returned =>
    accepted = IF ValidBlocksOnly = <<>> THEN <<>>
               ELSE AcceptedQuestions(MkText(ValidBlocksOnly, gap))

\* C16: after the cleanup no run of three or more newlines remains, and no
\* candidate block is empty or begins with an empty line.
C16_SeparatorsNormalized ==
  Returned =>
    LET cleaned == Cleanup(text)
        blocks == SplitBlocks(cleaned)
    IN /\ ~Contains(cleaned, <<NL, NL, NL>>)
       /\ \A i \in 1..Len(blocks) : blocks[i] # <<>> /\ Head(blocks[i]) # NL

\* C17: from an Active session with current_q >= len(questions), the next
\* run of the script sets quiz_complete, presents no question (no Submit
\* button), accepts no answer, and changes neither the index nor the score.
C17_DefensiveCompletion ==
  [][(quiz_started /\ ~quiz_complete /\ current_q >= Len(questions)) =>
       /\ ~submit_shown
       /\ quiz_complete'
       /\ ~submit_shown'
       /\ UNCHANGED <<questions, current_q, score, user_answers>>]_vars

\* Complete through the defensive check: the index is past the last question
C17_Witness ==
  /\ quiz_started
  /\ quiz_complete
  /\ Len(questions) > 0
  /\ current_q >= Len(questions)

\* a step in which the Submit Answer handler runs
SubmitStep == \E selected \in ValidAnswers : SubmitAnswer(selected)

\* C18: while the session is Active the answered indices are exactly
\* 0..current_q-1; a submitted answer adds exactly one entry, under the index
\* current_q at submission, which had none before; no entry is removed or
\* overwritten except by a restart.
C18_OneEntryPerSubmit ==
  [][/\ (quiz_started' /\ ~quiz_complete') =>
          DOMAIN user_answers' = 0..(current_q' - 1)
     /\ SubmitStep =>
          /\ current_q \notin DOMAIN user_answers
          /\ DOMAIN user_answers' = DOMAIN user_answers \cup {current_q}
     /\ (user_answers' # user_answers) => (SubmitStep \/ RestartQuiz)
     /\ ~RestartQuiz =>
          \A i \in DOMAIN user_answers :
            i \in DOMAIN user_answers' /\ user_answers'[i] = user_answers[i]]_vars

\* Active on the third question with the first two answered
C18_Witness ==
  /\ quiz_started
  /\ ~quiz_complete
  /\ current_q = 2
  /\ DOMAIN user_answers = {0, 1}

\* the indices the answer review marks as correct (line 255)
CorrectIndices ==
  {i \in DOMAIN user_answers :
     i + 1 \in DOMAIN questions /\ user_answers[i] = questions[i + 1].answer}

\* C19: the stored score is the number of indices i of user_answers with
\* user_answers[i] = questions[i].answer.
C19_ScoreMatchesReview == score = Cardinality(CorrectIndices)

\* Complete with one answer right and one wrong
C19_Witness ==
  /\ quiz_complete
  /\ Cardinality(DOMAIN user_answers) = 2
  /\ score = 1

\* a click on the Submit Answer button on display
StaleOrLiveClick == \E selected \in ValidAnswers : SubmitClick(selected)

\* C20: a Submit click for an index already answered, or one that arrives when
\* the session is Complete, changes neither score nor user_answers nor
\* current_q; the score only grows by one, for an index not answered before.
C20_NoIndexScoredTwice ==
  [][/\ (StaleOrLiveClick /\ (quiz_complete \/ current_q \in DOMAIN user_answers)) =>
          UNCHANGED <<score, user_answers, current_q>>
     /\ (quiz_complete /\ quiz_complete') =>
          UNCHANGED <<score, user_answers, current_q>>
     /\ (score' > score) =>
          (score' = score + 1 /\ current_q \notin DOMAIN user_answers)]_vars

\* Complete on the last index, the Submit button gone without a rerun: the
\* button left on display was clicked after completion
C20_Witness ==
  /\ quiz_complete
  /\ ~rerun
  /\ ~submit_shown
  /\ current_q < Len(questions)
  /\ current_q \in DOMAIN user_answers

====
